---- MODULE Spec2Model ----
(***************************************************************************)
(* A model of drf_addons_plus/filters.py: the ConditionalFilter and the    *)
(* FieldsFilter filter backends.                                           *)
(*                                                                         *)
(* Python strings are sequences of one-character strings, so that split,   *)
(* strip, replace, indexing and formatting are computed as the code        *)
(* computes them.  Python values that may be None, or attributes that may  *)
(* be missing, are tagged records.  A call that may raise returns a record *)
(* [raised |-> TRUE, exc |-> ...] or [raised |-> FALSE, value |-> ...].    *)
(***************************************************************************)
EXTENDS Integers, Sequences, FiniteSets, TLC

VARIABLES
    self,       \* the filter backend instance (its class attributes)
    view,       \* the view the request is routed to (its attributes)
    request,    \* the request: query_params
    queryset,   \* the queryset handed to the backend
    pc,         \* "ready": the request is about to be handled; else the operation that ran
    ret         \* what the operation returned or raised, with what it did on the way

vars == <<self, view, request, queryset, pc, ret>>

---------------------------------------------------------------------------
(* Python values *)

None == [tag |-> "None"]
Absent == [tag |-> "absent"]          \* no such attribute / key
Str(s) == [tag |-> "str", v |-> s]
List(l) == [tag |-> "list", v |-> l]
Tuple(t) == [tag |-> "tuple", v |-> t]

\* bool(x) of an attribute value
Truthy(x) ==
    CASE x.tag = "None" -> FALSE
      [] x.tag = "absent" -> FALSE
      [] OTHER -> Len(x.v) > 0

---------------------------------------------------------------------------
(* str methods *)

IsSpace(c) == c = " "

RECURSIVE lstrip(_)
lstrip(s) == IF s # <<>> /\ IsSpace(Head(s)) THEN lstrip(Tail(s)) ELSE s

RECURSIVE rstrip(_)
rstrip(s) ==
    IF s # <<>> /\ IsSpace(s[Len(s)]) THEN rstrip(SubSeq(s, 1, Len(s) - 1)) ELSE s

\* str.strip()
strip(s) == rstrip(lstrip(s))

\* s.startswith(p)
startswith(s, p) == Len(s) >= Len(p) /\ SubSeq(s, 1, Len(p)) = p

\* s[1:]
DropFirst(s) == SubSeq(s, 2, Len(s))

\* s.split(sep) for a non-empty separator: always at least one piece
RECURSIVE split(_, _)
split(s, sep) ==
    LET hits == {i \in 1..Len(s) : i + Len(sep) - 1 <= Len(s)
                                    /\ SubSeq(s, i, i + Len(sep) - 1) = sep}
    IN  IF hits = {} THEN <<s>>
        ELSE LET i == CHOOSE j \in hits : \A k \in hits : j <= k
             IN  <<SubSeq(s, 1, i - 1)>> \o split(SubSeq(s, i + Len(sep), Len(s)), sep)

\* sep.join(parts)
RECURSIVE join(_, _)
join(sep, parts) ==
    IF parts = <<>> THEN <<>>
    ELSE IF Len(parts) = 1 THEN parts[1]
    ELSE parts[1] \o sep \o join(sep, Tail(parts))

\* s.replace(old, new) for a non-empty old
replace(s, old, new) == join(new, split(s, old))

\* x in l, for a list l
InList(x, l) == \E i \in 1..Len(l) : l[i] = x

\* getattr(obj, name, default) on a record whose missing attributes are Absent
getattr(value, default) == IF value = Absent THEN default ELSE value

\* str.title() on the model's alphabet: the first letter of each run of letters
\* is upper-cased (every letter of the alphabet is lower case to begin with)
Letters == {"a", "b", "c", "n", "o", "p", "s", "v", "x", "z", "l"}
Upper(c) ==
    CASE c = "a" -> "A" [] c = "b" -> "B" [] c = "c" -> "C" [] c = "n" -> "N"
      [] c = "o" -> "O" [] c = "p" -> "P" [] c = "s" -> "S" [] c = "v" -> "V"
      [] c = "x" -> "X" [] c = "z" -> "Z" [] c = "l" -> "L" [] OTHER -> c
title(s) ==
    [i \in 1..Len(s) |->
        IF s[i] \in Letters /\ (i = 1 \/ s[i - 1] \notin Letters)
        THEN Upper(s[i]) ELSE s[i]]

LOOKUP_SEP == <<"_", "_">>
ALL_SENTINEL == <<"_", "_", "a", "l", "l", "_", "_">>

---------------------------------------------------------------------------
(* django.db.models.Q and QuerySet.filter, as far as the backends use them *)

\* Q(**{key: value}): one keyword child
Q_kwargs(key, value) ==
    [connector |-> "AND", children |-> << [form |-> "kwarg", key |-> key, value |-> value] >>]

\* Q({key: value}): the dict itself is one positional child
Q_dict(key, value) ==
    [connector |-> "AND", children |-> << [form |-> "dict", key |-> key, value |-> value] >>]

\* Node.add(data, conn) on a fresh node of connector conn: an un-negated operand
\* of the same connector, or with a single child, is squashed into the node
Q_operand(q, conn) ==
    IF q.connector = conn \/ Len(q.children) = 1 THEN q.children ELSE <<q>>

\* q1 & q2 and q1 | q2 (Q._combine) for non-empty operands
Q_and(q1, q2) ==
    [connector |-> "AND", children |-> Q_operand(q1, "AND") \o Q_operand(q2, "AND")]
Q_or(q1, q2) ==
    [connector |-> "OR", children |-> Q_operand(q1, "OR") \o Q_operand(q2, "OR")]

\* functools.reduce(operator.and_, qs) and reduce(operator.or_, qs), qs non-empty
RECURSIVE reduce_and(_)
reduce_and(qs) ==
    IF Len(qs) = 1 THEN qs[1]
    ELSE reduce_and(<<Q_and(qs[1], qs[2])>> \o SubSeq(qs, 3, Len(qs)))
RECURSIVE reduce_or(_)
reduce_or(qs) ==
    IF Len(qs) = 1 THEN qs[1]
    ELSE reduce_or(<<Q_or(qs[1], qs[2])>> \o SubSeq(qs, 3, Len(qs)))

\* queryset.filter(q): a new queryset with q added to the WHERE clause
QuerySet_filter(qs, q) ==
    [qs EXCEPT !.query = [@ EXCEPT !.where = Append(@, q)]]

---------------------------------------------------------------------------
(* ConditionalFilter *)

Raise(exc, msg) == [raised |-> TRUE, exc |-> exc, msg |-> msg]
Return(value) == [raised |-> FALSE, value |-> value]

\* faulty variant: the view's default is never read
get_default_conditional_ignored(v) == None

\* get_default_conditional(view)
get_default_conditional(v) ==
    LET conditional == getattr(v.conditional, None)
    IN  IF conditional.tag = "str" THEN Tuple(<<conditional.v>>) ELSE conditional

\* the serializer class get_default_valid_fields finds on the view, or None
view_serializer_class(v) ==
    IF v.get_serializer_class # Absent
    THEN IF v.get_serializer_class.tag = "raises" THEN None     \* except AssertionError
         ELSE v.get_serializer_class.v
    ELSE getattr(v.serializer_class, None)

\* the entry of the returned list for one serializer field
serializer_field_entry(f) ==
    LET source == replace(f.source, <<".">>, LOOKUP_SEP)
    IN  <<IF source # <<>> THEN source ELSE f.field_name, f.label>>

\* faulty variant: a view without a serializer class permits nothing instead of raising
get_default_valid_fields_lenient(slf, qs, v) ==
    LET serializer_class == view_serializer_class(v)
    IN  IF serializer_class = None THEN Return(<<>>)
        ELSE Return([i \in 1..Len(serializer_class.fields) |->
                        serializer_field_entry(serializer_class.fields[i])])

\* get_default_valid_fields(queryset, view, context)
get_default_valid_fields(slf, qs, v) ==
    LET serializer_class == view_serializer_class(v)
        model_property_names == qs.model.property_attrs \ {<<"p", "k">>}
        keep(f) == /\ ~f.write_only
                   /\ f.source # <<"*">>
                   /\ f.source \notin model_property_names
    IN  IF serializer_class = None
        THEN Raise("ImproperlyConfigured",
                   <<"Cannot use ", slf.class_name,
                     " on a view which does not have either a 'serializer_class', an overriding 'get_serializer_class' or 'conditional_fields' attribute.">>)
        ELSE LET kept == SelectSeq(serializer_class.fields, keep)
             IN  Return([i \in 1..Len(kept) |-> serializer_field_entry(kept[i])])

\* one item of an explicit allow-list: a name, or a (name, label) pair
valid_field_item(item) == IF item.tag = "str" THEN <<item.v, item.v>> ELSE item.v

\* the items a for-loop over conditional_fields yields: the elements of a
\* list or tuple, the characters of a string
iter_items(x) == IF x.tag = "str" THEN [i \in 1..Len(x.v) |-> Str(<<x.v[i]>>)] ELSE x.v

\* faulty variant: the serializer is preferred to an explicit allow-list
get_valid_fields_serializer_first(slf, qs, v) ==
    LET valid_fields == getattr(v.conditional_fields, slf.conditional_fields)
    IN  IF valid_fields = None \/ view_serializer_class(v) # None
        THEN get_default_valid_fields(slf, qs, v) @@ [serializer |-> TRUE]
        ELSE Return([i \in 1..Len(iter_items(valid_fields)) |->
                        valid_field_item(iter_items(valid_fields)[i])])
             @@ [serializer |-> FALSE]

\* get_valid_fields(queryset, view, context); serializer tells whether the
\* serializer was consulted
get_valid_fields(slf, qs, v) ==
    LET valid_fields == getattr(v.conditional_fields, slf.conditional_fields)
    IN  IF valid_fields = None
        THEN get_default_valid_fields(slf, qs, v) @@ [serializer |-> TRUE]
        ELSE IF valid_fields = Str(ALL_SENTINEL)
        THEN Return([i \in 1..Len(qs.model.fields) |->
                        <<qs.model.fields[i].name, qs.model.fields[i].verbose_name>>]
                    \o [i \in 1..Len(qs.query.annotations) |->
                        <<qs.query.annotations[i],
                          split(title(qs.query.annotations[i]), LOOKUP_SEP)>>])
             @@ [serializer |-> FALSE]
        ELSE Return([i \in 1..Len(iter_items(valid_fields)) |->
                        valid_field_item(iter_items(valid_fields)[i])])
             @@ [serializer |-> FALSE]

\* faulty variant: the negation marker is not removed before the membership test
term_valid_marker_kept(term, valid_fields) == InList(term, valid_fields)

\* term_valid(term), the closure of remove_invalid_fields
term_valid(term, valid_fields) ==
    LET t == IF startswith(term, <<"-">>) THEN DropFirst(term) ELSE term
    IN  InList(t, valid_fields)

\* remove_invalid_fields(queryset, fields, view, request)
remove_invalid_fields(slf, qs, fields, v) ==
    LET got == get_valid_fields(slf, qs, v)
    IN  IF got.raised THEN got
        ELSE LET valid_fields == [i \in 1..Len(got.value) |-> got.value[i][1]]
                 ok(term) == term_valid(term, valid_fields)
             IN  Return(SelectSeq(fields, ok))
                 @@ [serializer |-> got.serializer, valid_fields |-> valid_fields]

\* request.query_params.get(name, default)
query_params_get(req, name, default) ==
    IF name \in DOMAIN req.query_params THEN Str(req.query_params[name]) ELSE default

\* faulty variant: no fallback to the default when every token is invalid
get_conditional_no_fallback(slf, req, qs, v) ==
    LET params == query_params_get(req, slf.conditional_param, None)
    IN  IF Truthy(params)
        THEN LET pieces == split(params.v, <<",">>)
                 fields == [i \in 1..Len(pieces) |-> strip(pieces[i])]
                 conditional == remove_invalid_fields(slf, qs, fields, v)
             IN  IF conditional.raised THEN conditional
                 ELSE Return(Tuple(conditional.value))
                      @@ [from |-> IF conditional.value # <<>> THEN "param" ELSE "default",
                          validated |-> TRUE, fields |-> fields,
                          valid_fields |-> conditional.valid_fields,
                          serializer |-> conditional.serializer]
        ELSE Return(get_default_conditional(v)) @@ [from |-> "default", validated |-> FALSE]

\* get_conditional(request, queryset, view).  from: where the returned value
\* comes from ("param": the validated tokens, "default": the view's default);
\* validated: whether remove_invalid_fields ran
get_conditional(slf, req, qs, v) ==
    LET params == query_params_get(req, slf.conditional_param, None)
        default == Return(get_default_conditional(v)) @@ [from |-> "default"]
    IN  IF Truthy(params)
        THEN LET pieces == split(params.v, <<",">>)
                 fields == [i \in 1..Len(pieces) |-> strip(pieces[i])]
                 conditional == remove_invalid_fields(slf, qs, fields, v)
             IN  IF conditional.raised THEN conditional
                 ELSE IF conditional.value # <<>>
                 THEN Return(Tuple(conditional.value))
                      @@ [from |-> "param", validated |-> TRUE, fields |-> fields,
                          valid_fields |-> conditional.valid_fields,
                          serializer |-> conditional.serializer]
                 ELSE default
                      @@ [validated |-> TRUE, fields |-> fields,
                          valid_fields |-> conditional.valid_fields,
                          serializer |-> conditional.serializer]
        ELSE default @@ [validated |-> FALSE]

\* faulty variant: the marker is removed but the value stays True
condition_Q_always_true(condition) ==
    IF condition[1] = "-"
    THEN Q_kwargs(DropFirst(condition) \o <<"_", "_", "e", "x", "a", "c", "t">>, TRUE)
    ELSE Q_kwargs(condition \o <<"_", "_", "e", "x", "a", "c", "t">>, TRUE)

\* the Q object filter_queryset builds for one condition
condition_Q(condition) ==
    IF condition[1] = "-"
    THEN Q_kwargs(DropFirst(condition) \o <<"_", "_", "e", "x", "a", "c", "t">>, FALSE)
    ELSE Q_kwargs(condition \o <<"_", "_", "e", "x", "a", "c", "t">>, TRUE)

\* ConditionalFilter.filter_queryset(request, queryset, view)
ConditionalFilter_filter_queryset(slf, req, qs, v) ==
    LET conditional == get_conditional(slf, req, qs, v)
    IN  IF conditional.raised THEN conditional
        ELSE IF Truthy(conditional.value)
                /\ \E i \in 1..Len(conditional.value.v) : conditional.value.v[i] = <<>>
        THEN Raise("IndexError", <<"string index out of range">>)      \* condition[0]
        ELSE IF Truthy(conditional.value)
        THEN [conditional EXCEPT
                !.value = QuerySet_filter(qs, reduce_and(
                            [i \in 1..Len(conditional.value.v) |->
                                condition_Q(conditional.value.v[i])]))]
             @@ [conditional |-> conditional.value]
        ELSE [conditional EXCEPT !.value = qs] @@ [conditional |-> conditional.value]

\* get_template_context(request, queryset, view), called by to_html
get_template_context(slf, req, qs, v) ==
    LET conditional == get_conditional(slf, req, qs, v)
        got == get_valid_fields(slf, qs, v)
        option(e) == << <<e[1], <<e[2], "true">> >>, << <<"-">> \o e[1], <<e[2], "false">> >> >>
    IN  IF conditional.raised THEN conditional
        ELSE IF got.raised THEN got
        ELSE Return([current |-> IF Truthy(conditional.value)
                                 THEN Str(conditional.value.v[1]) ELSE None,
                     param |-> slf.conditional_param,
                     options |-> [i \in 1..(2 * Len(got.value)) |->
                                    option(got.value[(i + 1) \div 2])[2 - (i % 2)]]])

---------------------------------------------------------------------------
(* The requests and views the ConditionalFilter is exercised on *)

MaxTokens == 3      \* comma-separated tokens in the conditional parameter

CONDITIONAL == <<"c", "o", "n", "d", "i", "t", "i", "o", "n", "a", "l">>

\* the tokens a conditional parameter is made of: permitted and unknown names,
\* negated, padded with blanks, and a lone marker (an empty name once the
\* marker is removed)
CondTokens ==
    { <<"a">>, <<"-", "v">>, <<"b">>, <<" ", "-", "s", " ">>, <<"-">> }

RECURSIVE SeqsUpTo(_, _)
SeqsUpTo(S, n) ==
    IF n = 0 THEN {<<>>}
    ELSE LET shorter == SeqsUpTo(S, n - 1)
         IN  shorter \cup {Append(q, x) : q \in {r \in shorter : Len(r) = n - 1}, x \in S}

\* the query strings: no conditional parameter, or tokens joined by commas
CondRequests ==
    {[query_params |-> <<>>]}
    \cup {[query_params |-> [k \in {CONDITIONAL} |-> join(<<",">>, toks)]] :
            toks \in SeqsUpTo(CondTokens, MaxTokens)}

\* the model behind the queryset: concrete fields a, v, s; properties pk and p
CondModel ==
    [fields |-> << [name |-> <<"a">>, verbose_name |-> "active"],
                   [name |-> <<"v">>, verbose_name |-> "verified"],
                   [name |-> <<"s">>, verbose_name |-> "secret"] >>,
     property_attrs |-> { <<"p", "k">>, <<"p">> }]

CondQuerysets ==
    {[model |-> CondModel, query |-> [annotations |-> ann, where |-> <<>>]] :
        ann \in { << <<"n", "_", "_", "c">> >> }}

SerField(name, source, label, wo) ==
    [field_name |-> name, source |-> source, label |-> label, write_only |-> wo]

\* a serializer exposing a and v, a dotted source, and fields that are write-only,
\* wildcard-sourced, property-sourced and pk-sourced
FullSerializer ==
    [tag |-> "class",
     fields |-> << SerField(<<"a">>, <<"a">>, "Active", FALSE),
                   SerField(<<"s">>, <<"s">>, "Secret", TRUE),
                   SerField(<<"x">>, <<"*">>, "Whole", FALSE),
                   SerField(<<"z">>, <<"p">>, "Prop", FALSE),
                   SerField(<<"o">>, <<"o", ".", "v">>, "Owner", FALSE),
                   SerField(<<"v">>, <<"v">>, "Verified", FALSE) >>]
SmallSerializer ==
    [tag |-> "class", fields |-> << SerField(<<"v">>, <<"v">>, "Verified", FALSE) >>]

\* how the view exposes (or fails to expose) a serializer class
SerializerAccess ==
    { [get_serializer_class |-> Absent, serializer_class |-> Absent],
      [get_serializer_class |-> Absent, serializer_class |-> SmallSerializer],
      [get_serializer_class |-> [tag |-> "raises", exc |-> "AssertionError"],
       serializer_class |-> None],
      [get_serializer_class |-> [tag |-> "returns", v |-> FullSerializer],
       serializer_class |-> FullSerializer] }

AllowLists ==
    { List(<< Str(<<"a">>), Tuple(<< <<"v">>, "Verified" >>) >>), List(<< Str(<<"s">>) >>) }

ViewConditionalFields == {Absent, None, Str(ALL_SENTINEL)} \cup AllowLists

\* the view's default conditional: names are non-empty, as field names are
ViewConditional == {Absent, Str(<<"s">>), Tuple(<< <<"-", "a">>, <<"s">> >>)}

CondViews ==
    {[conditional_fields |-> cf, conditional |-> c,
      get_serializer_class |-> sa.get_serializer_class,
      serializer_class |-> sa.serializer_class] :
        cf \in ViewConditionalFields, c \in ViewConditional, sa \in SerializerAccess}

\* the backend itself, and a subclass that declares an allow-list
CondFilters ==
    { [class_name |-> "ConditionalFilter", conditional_param |-> CONDITIONAL,
       conditional_fields |-> None],
      [class_name |-> "ActiveConditionalFilter", conditional_param |-> CONDITIONAL,
       conditional_fields |-> List(<< Str(<<"a">>) >>)] }

InitConditional ==
    /\ self \in CondFilters
    /\ view \in CondViews
    /\ request \in CondRequests
    /\ queryset \in CondQuerysets
    /\ pc = "ready"
    /\ ret = None

\* the backend filters the view's queryset for the request
FilterConditional ==
    /\ pc = "ready"
    /\ pc' = "filter_queryset"
    /\ ret' = ConditionalFilter_filter_queryset(self, request, queryset, view)
    /\ UNCHANGED <<self, view, request, queryset>>

\* the browsable API renders the backend's control
ToHtmlConditional ==
    /\ pc = "ready"
    /\ pc' = "to_html"
    /\ ret' = get_template_context(self, request, queryset, view)
    /\ UNCHANGED <<self, view, request, queryset>>

NextConditional == FilterConditional \/ ToHtmlConditional

SpecConditional == InitConditional /\ [][NextConditional]_vars

---------------------------------------------------------------------------
(* What the claims about the ConditionalFilter speak of *)

Filtered == pc = "filter_queryset"

\* the value of the conditional parameter ("" when the request carries none)
ParamValue ==
    IF CONDITIONAL \in DOMAIN request.query_params
    THEN request.query_params[CONDITIONAL] ELSE <<>>
ParamSupplied == ParamValue # <<>>

Negated(t) == t # <<>> /\ Head(t) = "-"
Unprefixed(t) == IF Negated(t) THEN Tail(t) ELSE t
NoBlanks(s) == LET nb(c) == c # " " IN SelectSeq(s, nb)
SeqRange(q) == {q[i] : i \in 1..Len(q)}

\* the tokens of a token list whose name is in the set permitted
KeptTokens(fields, permitted) ==
    LET in(t) == Unprefixed(t) \in permitted IN SelectSeq(fields, in)

\* field == true / field == false for each token, combined with AND
EqualityPredicate(tokens) ==
    [connector |-> "AND",
     children |-> [i \in 1..Len(tokens) |->
                    [form |-> "kwarg",
                     key |-> Unprefixed(tokens[i]) \o <<"_", "_", "e", "x", "a", "c", "t">>,
                     value |-> ~Negated(tokens[i])]]]

\* the operation returned the input queryset with exactly one more predicate
FilteredBy(tokens) ==
    ret.value = [queryset EXCEPT !.query.where = Append(@, EqualityPredicate(tokens))]
Unfiltered == ret.value = queryset

\* the allow-list in force: the view's attribute, else the filter class's
EffectiveConditionalFields ==
    IF view.conditional_fields # Absent THEN view.conditional_fields
    ELSE self.conditional_fields

\* the view yields no serializer class
NoSerializer ==
    IF view.get_serializer_class # Absent
    THEN view.get_serializer_class.tag = "raises"
    ELSE view.serializer_class \in {Absent, None}

Misconfigured == EffectiveConditionalFields = None /\ NoSerializer

\* the view's default conditional as a list of tokens
DefaultTokens ==
    CASE view.conditional.tag = "str" -> <<view.conditional.v>>
      [] view.conditional.tag = "tuple" -> view.conditional.v
      [] OTHER -> <<>>

\* C1: remove_invalid_fields keeps a token of the conditional parameter exactly
\* when the token without one leading "-" is a permitted field name; the tokens
\* are the comma-separated pieces of the parameter without surrounding blanks;
\* and a predicate built from the parameter's tokens names permitted fields only.
C1_OnlyPermittedTokensKept ==
    (Filtered /\ ~ret.raised /\ ret.validated) =>
        LET permitted == SeqRange(ret.valid_fields)
            kept == KeptTokens(ret.fields, permitted)
        IN  /\ ParamSupplied
            /\ NoBlanks(join(<<",">>, ret.fields)) = NoBlanks(ParamValue)
            /\ \A i \in 1..Len(ret.fields) :
                  /\ "," \notin SeqRange(ret.fields[i])
                  /\ ret.fields[i] = <<>> \/
                        (Head(ret.fields[i]) # " " /\ ret.fields[i][Len(ret.fields[i])] # " ")
            /\ (ret.from = "param") = (kept # <<>>)
            /\ ret.from = "param" =>
                  /\ ret.conditional.v = kept
                  /\ Len(ret.value.query.where) = Len(queryset.query.where) + 1
                  /\ LET q == ret.value.query.where[Len(ret.value.query.where)]
                     IN  \A i \in 1..Len(q.children) :
                            \E f \in permitted :
                                q.children[i].key = f \o <<"_", "_", "e", "x", "a", "c", "t">>

\* a request whose parameter has a dropped token and a kept negated token
C1_Witness ==
    /\ Filtered /\ ~ret.raised /\ ret.validated /\ ret.from = "param"
    /\ <<"b">> \in SeqRange(ret.fields)
    /\ <<"b">> \notin SeqRange(ret.conditional.v)
    /\ <<"-", "v">> \in SeqRange(ret.conditional.v)
    /\ Len(ret.conditional.v) < Len(ret.fields)

\* C2: filter_queryset builds one equality predicate per token of the
\* conditional it uses and combines them with AND: field == false for a token
\* prefixed with "-", field == true otherwise; the tokens of a supplied
\* parameter are its validated tokens.  With permitted fields {a, v} the
\* parameter "a,-v,b" gives a == true AND v == false.
C2_OnePredicatePerToken ==
    (Filtered /\ ~ret.raised) =>
        /\ ret.conditional.tag = "tuple" /\ ret.conditional.v # <<>>
              => FilteredBy(ret.conditional.v)
        /\ ret.from = "param" =>
              FilteredBy(KeptTokens(ret.fields, SeqRange(ret.valid_fields)))
        /\ (/\ ParamValue = <<"a", ",", "-", "v", ",", "b">>
            /\ SeqRange(ret.valid_fields) = {<<"a">>, <<"v">>})
              => ret.value.query.where =
                    << [connector |-> "AND",
                        children |->
                          << [form |-> "kwarg", key |-> <<"a", "_", "_", "e", "x", "a", "c", "t">>,
                              value |-> TRUE],
                             [form |-> "kwarg", key |-> <<"v", "_", "_", "e", "x", "a", "c", "t">>,
                              value |-> FALSE] >>] >>

\* the example of the claim: allow-list {a, v}, conditional=a,-v,b
C2_Witness ==
    /\ Filtered /\ ~ret.raised
    /\ ParamValue = <<"a", ",", "-", "v", ",", "b">>
    /\ ret.validated /\ SeqRange(ret.valid_fields) = {<<"a">>, <<"v">>}
    /\ Len(ret.value.query.where[1].children) = 2

\* C3: without a conditional parameter (absent or empty) filter_queryset
\* filters by the view's default conditional, a single string counting as a
\* one-element tuple, and returns the queryset unmodified when there is none.
C3_DefaultWithoutParam ==
    (Filtered /\ ~ParamSupplied) =>
        /\ ~ret.raised
        /\ DefaultTokens # <<>> => FilteredBy(DefaultTokens)
        /\ DefaultTokens = <<>> => Unfiltered

\* an empty parameter on a view whose default is the single string "s"
C3_Witness ==
    /\ Filtered /\ CONDITIONAL \in DOMAIN request.query_params /\ ~ParamSupplied
    /\ view.conditional = Str(<<"s">>)
    /\ ~ret.raised /\ Len(ret.value.query.where) = 1

\* C4 as claimed: when every token of a supplied parameter is invalid,
\* filter_queryset returns an unfiltered result, whatever the view.
C4_AllInvalidUnfiltered ==
    (/\ Filtered /\ ParamSupplied /\ ~ret.raised
     /\ KeptTokens(ret.fields, SeqRange(ret.valid_fields)) = <<>>) => Unfiltered

\* C4, amended: invalid tokens never cause an error (filter_queryset raises
\* only the configuration error, which depends on the view and the backend and
\* not on the tokens) and filtering proceeds with the tokens that remain; when
\* none remains it proceeds as without a parameter: by the view's default
\* conditional, unfiltered only when the view declares none.
C4_AllInvalidFallsBackToDefault ==
    (Filtered /\ ParamSupplied) =>
        /\ ret.raised = Misconfigured
        /\ ret.raised => ret.exc = "ImproperlyConfigured"
        /\ ~ret.raised =>
              LET kept == KeptTokens(ret.fields, SeqRange(ret.valid_fields))
              IN  /\ kept # <<>> => FilteredBy(kept)
                  /\ (kept = <<>> /\ DefaultTokens # <<>>) => FilteredBy(DefaultTokens)
                  /\ (kept = <<>> /\ DefaultTokens = <<>>) => Unfiltered

\* every supplied token is invalid and the view's default filters the result
C4_Witness ==
    /\ Filtered /\ ParamSupplied /\ ~ret.raised
    /\ <<"b">> \in SeqRange(ret.fields)
    /\ KeptTokens(ret.fields, SeqRange(ret.valid_fields)) = <<>>
    /\ DefaultTokens = << <<"-", "a">>, <<"s">> >>
    /\ Len(ret.value.query.where) = 1

\* "." replaced by "__", character by character
RECURSIVE DotsToSep(_)
DotsToSep(s) ==
    IF s = <<>> THEN <<>>
    ELSE (IF Head(s) = "." THEN <<"_", "_">> ELSE <<Head(s)>>) \o DotsToSep(Tail(s))

\* the serializer class the view yields (when it yields one)
ViewSerializer ==
    IF view.get_serializer_class # Absent THEN view.get_serializer_class.v
    ELSE view.serializer_class

\* the serializer fields that are neither write-only nor wildcard-sourced
ReadableFields ==
    LET readable(f) == ~f.write_only /\ f.source # <<"*">>
    IN  SelectSeq(ViewSerializer.fields, readable)

\* C9: the permitted names are those of the allow-list in force (the view's
\* conditional_fields, else the filter class's) and then the serializer is not
\* consulted; "__all__" stands for the model's fields followed by the
\* queryset's annotations; only without an allow-list is the serializer
\* consulted, and then every permitted name comes from a declared field that is
\* neither write-only nor wildcard-sourced (precisely: from those of them whose
\* source is not a property of the model other than pk, in declaration order).
C9_AllowListTakesPrecedence ==
    (Filtered /\ ~ret.raised /\ ret.validated) =>
        LET acf == EffectiveConditionalFields
        IN  /\ ret.serializer = (acf = None)
            /\ acf = Str(ALL_SENTINEL) =>
                  ret.valid_fields =
                      [i \in 1..Len(queryset.model.fields) |-> queryset.model.fields[i].name]
                      \o queryset.query.annotations
            /\ acf.tag \in {"list", "tuple"} =>
                  /\ Len(ret.valid_fields) = Len(acf.v)
                  /\ \A i \in 1..Len(acf.v) :
                        ret.valid_fields[i] =
                            IF acf.v[i].tag = "str" THEN acf.v[i].v ELSE acf.v[i].v[1]
            /\ acf = None =>
                  LET notprop(f) == f.source \notin (queryset.model.property_attrs \ {<<"p", "k">>})
                      derived == SelectSeq(ReadableFields, notprop)
                  IN  /\ SeqRange(ret.valid_fields) \subseteq
                            {DotsToSep(f.source) : f \in SeqRange(ReadableFields)}
                      /\ ret.valid_fields =
                            [i \in 1..Len(derived) |-> DotsToSep(derived[i].source)]

\* the view declares an allow-list and has a serializer, which is not consulted
C9_Witness ==
    /\ Filtered /\ ~ret.raised /\ ret.validated
    /\ view.conditional_fields = List(<< Str(<<"s">>) >>)
    /\ ~NoSerializer
    /\ ~ret.serializer
    /\ ret.valid_fields = << <<"s">> >>

\* the view has no allow-list in force and its serializer decides
C9_WitnessSerializer ==
    /\ Filtered /\ ~ret.raised /\ ret.validated /\ ret.serializer
    /\ ret.valid_fields = << <<"a">>, <<"o", "_", "_", "v">>, <<"v">> >>

\* C10 as claimed: on a view with neither allow-list nor serializer class the
\* configuration error is raised for every request filtered through the view.
C10_RaisedForEveryRequest ==
    (Filtered /\ Misconfigured) =>
        /\ ret.raised /\ ret.exc = "ImproperlyConfigured"
        /\ self.class_name \in SeqRange(ret.msg)

\* C10, amended: with neither an allow-list in force nor a serializer class,
\* filter_queryset raises ImproperlyConfigured, naming the filter class, exactly
\* for the requests that carry a non-empty conditional parameter; a request
\* without one is filtered by the view's default and raises nothing.  Rendering
\* the control (to_html) raises it for every request.  No other configuration
\* raises.
C10_RaisedWhenParamSupplied ==
    /\ (Filtered /\ Misconfigured) =>
          /\ ret.raised = ParamSupplied
          /\ ret.raised => /\ ret.exc = "ImproperlyConfigured"
                           /\ self.class_name \in SeqRange(ret.msg)
    /\ (pc = "to_html" /\ Misconfigured) =>
          /\ ret.raised /\ ret.exc = "ImproperlyConfigured"
          /\ self.class_name \in SeqRange(ret.msg)
    /\ (pc # "ready" /\ ~Misconfigured) => ~ret.raised

\* a misconfigured view, a request with a conditional parameter: the error
C10_Witness ==
    /\ Filtered /\ Misconfigured /\ ParamSupplied
    /\ ret.raised /\ ret.exc = "ImproperlyConfigured"
    /\ self.class_name = "ActiveConditionalFilter"

\* a misconfigured view, a request without the parameter: no error
C10_WitnessNoParam ==
    /\ Filtered /\ Misconfigured /\ ~ParamSupplied /\ ~ret.raised

---------------------------------------------------------------------------
(* FieldsFilter *)

\* Model._meta of the models the search fields are resolved against.  A field
\* has the lookups get_lookup() finds for it and, when it is a relation
\* (path_infos), the model its last path leads to.
Field(lookups, path_infos) == [lookups |-> lookups, path_infos |-> path_infos]
PathTo(m) == [tag |-> "paths", to_opts |-> m]
ICONTAINS == <<"i", "c", "o", "n", "t", "a", "i", "n", "s">>
TextLookups == {ICONTAINS, <<"x">>}
ModelRegistry ==
    [Item |-> [pk |-> <<"i", "d">>,
               fields |-> (<<"i", "d">> :> Field({<<"g", "t">>}, Absent))
                          @@ (<<"n">> :> Field(TextLookups, Absent))
                          @@ (<<"c">> :> Field({ICONTAINS}, Absent))
                          @@ (<<"o">> :> Field({<<"g", "t">>}, PathTo("Owner")))],
     Owner |-> [pk |-> <<"c">>,
                fields |-> (<<"c">> :> Field(TextLookups, Absent))
                           @@ (<<"x">> :> Field({ICONTAINS}, Absent))
                           @@ (<<"i">> :> Field({<<"g", "t">>}, PathTo("Item")))]]

\* lookup_prefixes.get(c)
lookup_prefixes(c) ==
    CASE c = "^" -> Str(<<"i", "s", "t", "a", "r", "t", "s", "w", "i", "t", "h">>)
      [] c = "=" -> Str(<<"i", "e", "x", "a", "c", "t">>)
      [] c = "@" -> Str(<<"s", "e", "a", "r", "c", "h">>)
      [] c = "$" -> Str(<<"i", "r", "e", "g", "e", "x">>)
      [] OTHER -> None

\* get_search_fields(view, request)
get_search_fields(v) == getattr(v.filter_fields, None)

\* CharField(trim_whitespace=False, allow_blank=True).run_validation(value):
\* the string comes back as it is (no character of the model's alphabet is
\* one the validators refuse)
run_validation(value) == value

\* the pieces of s between runs of blanks
RECURSIVE whitespace_split(_)
whitespace_split(s) ==
    LET t == lstrip(s)
        blanks == {i \in 1..Len(t) : IsSpace(t[i])}
    IN  IF t = <<>> THEN <<>>
        ELSE IF blanks = {} THEN <<t>>
        ELSE LET i == CHOOSE j \in blanks : \A k \in blanks : j <= k
             IN  <<SubSeq(t, 1, i - 1)>> \o whitespace_split(SubSeq(t, i, Len(t)))

\* str.strip(",")
RECURSIVE strip_commas(_)
strip_commas(s) ==
    IF s # <<>> /\ Head(s) = "," THEN strip_commas(Tail(s))
    ELSE IF s # <<>> /\ s[Len(s)] = "," THEN strip_commas(SubSeq(s, 1, Len(s) - 1))
    ELSE s

\* rest_framework.filters.search_smart_split on unquoted text: the blank-separated
\* pieces, each split at its commas, the empty pieces dropped
search_smart_split(s) ==
    LET terms == whitespace_split(s)
        nonempty(t) == t # <<>>
        sub(term) == LET parts == SelectSeq(split(strip_commas(term), <<",">>), nonempty)
                     IN  [i \in 1..Len(parts) |-> strip(parts[i])]
        flat[i \in 0..Len(terms)] == IF i = 0 THEN <<>> ELSE flat[i - 1] \o sub(terms[i])
    IN  flat[Len(terms)]

\* faulty variant: the value is taken as one term instead of being split
get_search_terms_unsplit(req, field_param) ==
    LET value == query_params_get(req, field_param, Str(<<>>))
    IN  IF value.v = <<>> THEN <<>> ELSE <<value.v>>

\* get_search_terms(request, field_param)
get_search_terms(req, field_param) ==
    LET value == query_params_get(req, field_param, Str(<<>>))
        cleaned_value == run_validation(value.v)
    IN  search_smart_split(cleaned_value)

\* faulty variant: after a resolved field any unknown segment is taken for a lookup
RECURSIVE follow_lookup_path_unchecked(_, _, _, _)
follow_lookup_path_unchecked(lookup_fields, i, opts, prev_field) ==
    IF i > Len(lookup_fields) THEN FALSE
    ELSE LET path_part == IF lookup_fields[i] = <<"p", "k">> THEN opts.pk
                          ELSE lookup_fields[i]
         IN  IF path_part \notin DOMAIN opts.fields
             THEN IF prev_field # None
                  THEN TRUE
                  ELSE follow_lookup_path_unchecked(lookup_fields, i + 1, opts, prev_field)
             ELSE LET field == opts.fields[path_part]
                  IN  follow_lookup_path_unchecked(lookup_fields, i + 1,
                                         IF field.path_infos # Absent
                                         THEN ModelRegistry[field.path_infos.to_opts]
                                         ELSE opts,
                                         field)

\* the for-loop of construct_search from part i on: TRUE when it returns
\* field_name itself, FALSE when it runs to its end
RECURSIVE follow_lookup_path(_, _, _, _)
follow_lookup_path(lookup_fields, i, opts, prev_field) ==
    IF i > Len(lookup_fields) THEN FALSE
    ELSE LET path_part == IF lookup_fields[i] = <<"p", "k">> THEN opts.pk
                          ELSE lookup_fields[i]
         IN  IF path_part \notin DOMAIN opts.fields              \* FieldDoesNotExist
             THEN IF prev_field # None /\ path_part \in prev_field.lookups
                  THEN TRUE
                  ELSE follow_lookup_path(lookup_fields, i + 1, opts, prev_field)
             ELSE LET field == opts.fields[path_part]
                  IN  follow_lookup_path(lookup_fields, i + 1,
                                         IF field.path_infos # Absent
                                         THEN ModelRegistry[field.path_infos.to_opts]
                                         ELSE opts,
                                         field)

\* construct_search(field_name, queryset)
construct_search(field_name, qs) ==
    IF field_name = <<>> THEN Raise("IndexError", <<"string index out of range">>)
    ELSE LET lookup == lookup_prefixes(field_name[1])
         IN  IF lookup # None
             THEN Return(join(LOOKUP_SEP, <<DropFirst(field_name), lookup.v>>))
             ELSE IF follow_lookup_path(split(field_name, LOOKUP_SEP), 1,
                                        ModelRegistry[qs.model], None)
             THEN Return(field_name)
             ELSE Return(join(LOOKUP_SEP, <<field_name, ICONTAINS>>))

\* the body of the for-loop of filter_queryset from field i on
RECURSIVE filter_by_fields(_, _, _, _)
filter_by_fields(req, qs, search_fields, i) ==
    IF i > Len(search_fields) THEN Return(qs)
    ELSE LET field == search_fields[i]
             search_terms == get_search_terms(req, field)
             orm_lookup == construct_search(field, qs)
             orm_lookups == <<orm_lookup.value>>
             term_Q(term) == reduce_or([k \in 1..Len(orm_lookups) |-> Q_dict(orm_lookups[k], term)])
             conditions == [k \in 1..Len(search_terms) |-> term_Q(search_terms[k])]
         IN  IF search_terms = <<>>
             THEN filter_by_fields(req, qs, search_fields, i + 1)
             ELSE IF orm_lookup.raised THEN orm_lookup
             ELSE filter_by_fields(req, QuerySet_filter(qs, reduce_and(conditions)),
                                   search_fields, i + 1)

\* faulty variant: the search fields are iterated without the guard for none configured
FieldsFilter_filter_queryset_unguarded(req, qs, v) ==
    LET search_fields == get_search_fields(v)
    IN  IF search_fields.tag # "list"
        THEN Raise("TypeError", <<"'NoneType' object is not iterable">>)
        ELSE filter_by_fields(req, qs, search_fields.v, 1)

\* FieldsFilter.filter_queryset(request, queryset, view)
FieldsFilter_filter_queryset(req, qs, v) ==
    LET search_fields == get_search_fields(v)
    IN  IF ~Truthy(search_fields) THEN Return(qs)
        ELSE filter_by_fields(req, qs, search_fields.v, 1)

---------------------------------------------------------------------------
(* The requests and views the FieldsFilter is exercised on *)

MaxFields == 2        \* search fields a view configures
MaxValueLen == 4      \* characters in the value of a parameter named like a search field

SEARCH == <<"s", "e", "a", "r", "c", "h">>

\* the search fields views configure: name, and ^code
FieldSpecs == { <<"n">>, <<"^", "c">> }

\* the characters of those values: a letter and the blank, enough for every
\* arrangement of terms, leading, trailing and repeated blanks
SearchChars == {"f", " "}
NoParam == <<"absent">>         \* stands for a parameter the request does not carry
ParamValues == SeqsUpTo(SearchChars, MaxValueLen) \cup {NoParam}

Param(name, value) == IF value = NoParam THEN <<>> ELSE name :> value

\* the query strings: any value for the parameters named like the search
\* fields; the search parameter absent, or "f b"
FieldsRequests ==
    {[query_params |-> Param(<<"n">>, vn) @@ Param(<<"^", "c">>, vc) @@ Param(SEARCH, vs)] :
        vn \in ParamValues, vc \in ParamValues, vs \in {NoParam, <<"f", " ", "b">>}}

FieldsViews ==
    {[filter_fields |-> ff] :
        ff \in {Absent, None} \cup {List(l) : l \in SeqsUpTo(FieldSpecs, MaxFields)}}

FieldsFilterClass ==
    [class_name |-> "FieldsFilter", search_param |-> SEARCH]

ItemQueryset == [model |-> "Item", query |-> [annotations |-> <<>>, where |-> <<>>]]

InitFields ==
    /\ self = FieldsFilterClass
    /\ view \in FieldsViews
    /\ request \in FieldsRequests
    /\ queryset = ItemQueryset
    /\ pc = "ready"
    /\ ret = None

\* the backend filters the view's queryset for the request
FilterFields ==
    /\ pc = "ready"
    /\ pc' = "filter_queryset"
    /\ ret' = FieldsFilter_filter_queryset(request, queryset, view)
    /\ UNCHANGED <<self, view, request, queryset>>

NextFields == FilterFields

SpecFields == InitFields /\ [][NextFields]_vars

---------------------------------------------------------------------------
(* The search fields construct_search is exercised on *)

MaxParts == 3         \* segments of a search field's path

\* path segments: fields (n, c, o, id), a relation (o), a lookup that is also a
\* field of Owner (x), pk, the standard lookup, and a name that is nothing (z)
PathSegments == { <<"n">>, <<"o">>, <<"c">>, <<"x">>, <<"z">>, <<"p", "k">>, ICONTAINS }

PrefixChars == {"^", "=", "@", "$"}

\* a path of one to MaxParts segments, or a prefix character followed by a
\* path of none to MaxParts segments
SearchFieldNames ==
    LET paths == SeqsUpTo(PathSegments, MaxParts)
    IN  {join(LOOKUP_SEP, q) : q \in paths \ {<<>>}}
        \cup {<<c>> \o join(LOOKUP_SEP, q) : c \in PrefixChars, q \in paths}

InitSearch ==
    /\ self = FieldsFilterClass
    /\ view \in {[filter_fields |-> List(<<name>>)] : name \in SearchFieldNames}
    /\ request = [query_params |-> <<>>]
    /\ queryset \in {[model |-> m, query |-> [annotations |-> <<>>, where |-> <<>>]] :
                        m \in {"Item", "Owner"}}
    /\ pc = "ready"
    /\ ret = None

\* the lookup of the view's search field is worked out
ConstructSearch ==
    /\ pc = "ready"
    /\ pc' = "construct_search"
    /\ ret' = construct_search(view.filter_fields.v[1], queryset)
    /\ UNCHANGED <<self, view, request, queryset>>

NextSearch == ConstructSearch

SpecSearch == InitSearch /\ [][NextSearch]_vars

---------------------------------------------------------------------------
(* What the claims about the FieldsFilter speak of *)

\* the search fields the view configures ("" when it configures none)
ConfiguredFields ==
    IF view.filter_fields.tag = "list" THEN view.filter_fields.v ELSE <<>>

\* the ORM lookups of the two search fields views configure
LookupOf(field) ==
    CASE field = <<"n">> -> <<"n", "_", "_">> \o ICONTAINS
      [] field = <<"^", "c">> -> <<"c", "_", "_", "i", "s", "t", "a", "r", "t", "s", "w", "i", "t", "h">>

\* a predicate as a conjunction of clauses, each a set of (lookup, term) pairs
\* of which one must hold
Atom(child) == <<child.key, child.value>>
ClausesOfQ(q) ==
    IF q.connector = "OR" THEN {{Atom(q.children[i]) : i \in 1..Len(q.children)}}
    ELSE {IF "connector" \in DOMAIN q.children[i]
          THEN {Atom(q.children[i].children[j]) : j \in 1..Len(q.children[i].children)}
          ELSE {Atom(q.children[i])} : i \in 1..Len(q.children)}
ClausesOf(qs) == UNION {ClausesOfQ(qs.query.where[i]) : i \in 1..Len(qs.query.where)}

\* the value of the search parameter ("" when the request carries none)
SearchValue ==
    IF SEARCH \in DOMAIN request.query_params THEN request.query_params[SEARCH] ELSE <<>>

\* C5 as claimed: the terms of the search parameter, each matched against
\* every configured search field: AND over the terms of (OR over the fields of
\* field <lookup> term).
C5_SearchTermsOverAllFields ==
    (pc = "filter_queryset" /\ ConfiguredFields # <<>>) =>
        /\ ~ret.raised
        /\ ClausesOf(ret.value) =
              {{<<LookupOf(f), t>> : f \in SeqRange(ConfiguredFields)} :
                  t \in SeqRange(whitespace_split(SearchValue))}

\* the parameter named like a search field has a term: a character that is
\* neither a blank nor a comma
HasTerm(field) ==
    /\ field \in DOMAIN request.query_params
    /\ \E i \in 1..Len(request.query_params[field]) :
          request.query_params[field][i] \notin {" ", ","}

\* C7: a configured field whose term list is empty (its parameter absent, empty
\* or blank) contributes no predicate: the result has one predicate per field
\* with terms, on that field's lookup; it is the result for the view with the
\* other fields left out; and it is the input queryset when no field has terms.
C7_EmptyTermListContributesNothing ==
    (pc = "filter_queryset" /\ ConfiguredFields # <<>>) =>
        LET contributing == SelectSeq(ConfiguredFields, HasTerm)
        IN  /\ ~ret.raised
            /\ Len(ret.value.query.where) = Len(contributing)
            /\ \A k \in 1..Len(contributing) :
                  \A i \in 1..Len(ret.value.query.where[k].children) :
                      ret.value.query.where[k].children[i].key = LookupOf(contributing[k])
            /\ contributing = <<>> => ret.value = queryset
            /\ ret = FieldsFilter_filter_queryset(request, queryset,
                                                  [filter_fields |-> List(contributing)])

\* two configured fields, one with a term and one whose parameter is blank
C7_Witness ==
    /\ pc = "filter_queryset"
    /\ ConfiguredFields = << <<"n">>, <<"^", "c">> >>
    /\ HasTerm(<<"n">>)
    /\ <<"^", "c">> \in DOMAIN request.query_params
    /\ request.query_params[<<"^", "c">>] = <<" ", " ">>
    /\ Len(ret.value.query.where) = 1

\* C8: a view that configures no search fields (filter_fields missing, None or
\* empty) gets the input queryset back, whatever the request.
C8_NoSearchFieldsIdentity ==
    (pc = "filter_queryset" /\ view.filter_fields \in {Absent, None, List(<<>>)}) =>
        ret = Return(queryset)

\* no search fields, and a request full of terms
C8_Witness ==
    /\ pc = "filter_queryset"
    /\ view.filter_fields = None
    /\ HasTerm(<<"n">>) /\ HasTerm(<<"^", "c">>) /\ SearchValue # <<>>
    /\ ret.value = queryset

\* the view's (single) search field, and the segments of its path
SearchField == view.filter_fields.v[1]
Resolution ==
    LET parts == split(SearchField, LOOKUP_SEP)
        \* the model reached and the field last resolved after i segments
        at[i \in 0..Len(parts)] ==
            IF i = 0 THEN [opts |-> queryset.model, prev |-> None]
            ELSE LET m == ModelRegistry[at[i - 1].opts]
                     part == IF parts[i] = <<"p", "k">> THEN m.pk ELSE parts[i]
                 IN  IF part \in DOMAIN m.fields
                     THEN [opts |-> IF m.fields[part].path_infos = Absent THEN at[i - 1].opts
                                    ELSE m.fields[part].path_infos.to_opts,
                           prev |-> m.fields[part]]
                     ELSE at[i - 1]
    IN  [parts |-> parts, at |-> at]
\* segment i is no field of the model reached, and is a lookup of the field
\* resolved last
IsLookupSegment(i) ==
    LET r == Resolution
        m == ModelRegistry[r.at[i - 1].opts]
        part == IF r.parts[i] = <<"p", "k">> THEN m.pk ELSE r.parts[i]
    IN  /\ part \notin DOMAIN m.fields
        /\ r.at[i - 1].prev # None
        /\ part \in r.at[i - 1].prev.lookups

\* C6: a field name beginning with ^, =, @ or $ maps to the rest of the name
\* with __istartswith, __iexact, __search or __iregex, whatever the model; any
\* other name is returned unchanged exactly when one of its segments is no
\* field of the model reached and is a lookup of the field resolved before it,
\* and otherwise (also when nothing resolves) gets __icontains; nothing raises.
C6_PrefixOrLookupOrIcontains ==
    (pc = "construct_search") =>
        /\ ~ret.raised
        /\ SearchField[1] = "^" =>
              ret.value = Tail(SearchField) \o <<"_", "_", "i", "s", "t", "a", "r", "t", "s", "w", "i", "t", "h">>
        /\ SearchField[1] = "=" =>
              ret.value = Tail(SearchField) \o <<"_", "_", "i", "e", "x", "a", "c", "t">>
        /\ SearchField[1] = "@" =>
              ret.value = Tail(SearchField) \o <<"_", "_", "s", "e", "a", "r", "c", "h">>
        /\ SearchField[1] = "$" =>
              ret.value = Tail(SearchField) \o <<"_", "_", "i", "r", "e", "g", "e", "x">>
        /\ SearchField[1] \notin PrefixChars =>
              ret.value =
                  IF \E i \in 1..Len(Resolution.parts) : IsLookupSegment(i)
                  THEN SearchField
                  ELSE SearchField \o <<"_", "_">> \o ICONTAINS
        /\ (SearchField = <<"o", "_", "_", "x">> /\ queryset.model = "Item") =>
              ret.value = <<"o", "_", "_", "x", "_", "_">> \o ICONTAINS
        /\ (SearchField = <<"z", "_", "_", "x">>) =>
              ret.value = <<"z", "_", "_", "x", "_", "_">> \o ICONTAINS

\* n__z__x on Item: z resolves to nothing, x is a lookup of n: returned unchanged
C6_Witness ==
    /\ pc = "construct_search"
    /\ queryset.model = "Item"
    /\ SearchField = <<"n", "_", "_", "z", "_", "_", "x">>
    /\ ret.value = SearchField

\* a prefixed name whose path resolves to a lookup all the same
C6_WitnessPrefix ==
    /\ pc = "construct_search"
    /\ SearchField = <<"=", "n", "_", "_", "x">>
    /\ ret.value = <<"n", "_", "_", "x", "_", "_", "i", "e", "x", "a", "c", "t">>

====
